---------------------------- MODULE Spec2Model ----------------------------
(***************************************************************************)
(* Model of the pxar hardware abstraction layer, src/core/hal/hal.cc.      *)
(*                                                                         *)
(* The HAL turns every operation into a sequence of remote calls against   *)
(* the testboard object (_testboard).  The model keeps                     *)
(*   - the HAL's own state (_initialized),                                 *)
(*   - the last operation, its arguments, the remote calls it issued, in   *)
(*     order, and what it returned,                                        *)
(*   - the part of the testboard the calls act on: the pattern-generator   *)
(*     command memory and the two DAQ channels.                            *)
(* A remote call is a record [f |-> name, a |-> arguments, r |-> results]. *)
(***************************************************************************)
EXTENDS Integers, Sequences, FiniteSets, TLC

VARIABLES
    _initialized,   \* hal::_initialized
    initRan,        \* history: initTestboard has run to completion
    op,             \* name of the operation that ran last
    args,           \* its arguments
    calls,          \* the remote calls it issued on _testboard, in order
    ret,            \* its return value (<<>> for a void operation)
    dtb             \* testboard: [pg, open, on, buf]

vars == <<_initialized, initRan, op, args, calls, ret, dtb>>

-----------------------------------------------------------------------------
(* Bounds of the model *)

\* longest pattern-generator program enumerated entry by entry
MaxPgLen == 2
\* length of the one long pattern-generator program (more entries than uint8_t addresses)
LongPgLen == 257
\* most triggers one daqTrigger call sends
MaxTrig == 2
\* most words a DAQ channel buffer holds in the model
MaxBuf == 2
\* longest result array CalibrateMap hands back
MaxMapLen == 2
\* most newline-terminated lines of a flash file
MaxLines == 2

(* Integer widths of the program *)

\* number of values of a uint8_t (addr in SetupPatternGenerator)
Uint8Range == 256
\* number of values of a uint16_t (cmd in SetupPatternGenerator, _SetVA argument)
Uint16Range == 65536

-----------------------------------------------------------------------------
(* Helpers *)

Call(f, a, r) == [f |-> f, a |-> a, r |-> r]

\* a remote call without a result
VCall(f, a) == Call(f, a, <<>>)

RECURSIVE BitOr(_, _)
\* x | y on non-negative integers
BitOr(x, y) ==
    IF x = 0 THEN y
    ELSE IF y = 0 THEN x
    ELSE (IF x % 2 = 1 \/ y % 2 = 1 THEN 1 ELSE 0) + 2 * BitOr(x \div 2, y \div 2)

RECURSIVE BitAnd(_, _)
\* x & y on non-negative integers
BitAnd(x, y) ==
    IF x = 0 \/ y = 0 THEN 0
    ELSE (IF x % 2 = 1 /\ y % 2 = 1 THEN 1 ELSE 0) + 2 * BitAnd(x \div 2, y \div 2)

\* the calls of a trace that are to a function in F, in order
Only(cs, F) == SelectSeq(cs, LAMBDA c : c.f \in F)

\* all sequences over S of length at most n
RECURSIVE SeqsUpTo(_, _)
SeqsUpTo(S, n) ==
    IF n = 0 THEN {<<>>}
    ELSE LET shorter == SeqsUpTo(S, n - 1)
         IN  shorter \cup {Append(s, x) : s \in {t \in shorter : Len(t) = n - 1}, x \in S}

\* all sequences over S of length exactly n
SeqsOfLen(S, n) == {s \in SeqsUpTo(S, n) : Len(s) = n}

Min(a, b) == IF a < b THEN a ELSE b

-----------------------------------------------------------------------------
(* The testboard: pattern-generator memory and DAQ channels *)

Channels == {0, 1}

\* the addresses of the pattern-generator command memory
PgAddresses == 0 .. Uint8Range - 1

\* the testboard after power-up and hal::hal; pg holds the cells of the
\* pattern-generator memory written so far, every other cell holding 0
DtbInit ==
    [pg   |-> <<>>,
     open |-> [c \in Channels |-> FALSE],
     on   |-> [c \in Channels |-> FALSE],
     buf  |-> [c \in Channels |-> <<>>]]

\* effect of one DAQ call on the testboard
DaqApply(d, c) ==
    CASE c.f = "Daq_Open"   -> [d EXCEPT !.open[c.a[2]] = TRUE, !.buf[c.a[2]] = <<>>]
      [] c.f = "Daq_Start"  -> [d EXCEPT !.on[c.a[1]] = d.open[c.a[1]]]
      [] c.f = "Daq_Stop"   -> [d EXCEPT !.on[c.a[1]] = FALSE]
      [] c.f = "Daq_Close"  -> [d EXCEPT !.open[c.a[1]] = FALSE, !.on[c.a[1]] = FALSE,
                                         !.buf[c.a[1]] = <<>>]
      [] OTHER              -> d

RECURSIVE DaqRun(_, _)
DaqRun(d, cs) == IF cs = <<>> THEN d ELSE DaqRun(DaqApply(d, Head(cs)), Tail(cs))

\* the pattern-generator memory after the Pg_SetCmd calls of cs: every address holds
\* the command of the last call that wrote it
PgRun(pg, cs) ==
    LET w == Only(cs, {"Pg_SetCmd"})
        hits(a) == {i \in 1 .. Len(w) : w[i].a[1] = a}
        last(a) == CHOOSE i \in hits(a) : \A j \in hits(a) : j <= i
    IN  IF w = <<>> THEN pg
        ELSE [a \in DOMAIN pg \cup {w[i].a[1] : i \in 1 .. Len(w)} |->
                IF hits(a) = {} THEN pg[a] ELSE w[last(a)].a[2]]

\* effect of a sequence of remote calls, in order
DtbRun(d, cs) == [DaqRun(d, Only(cs, {"Daq_Open", "Daq_Start", "Daq_Stop", "Daq_Close"}))
                    EXCEPT !.pg = PgRun(d.pg, cs)]

\* the command word held at address a
PgCell(pg, a) == IF a \in DOMAIN pg THEN pg[a] ELSE 0

\* delay field of a pattern-generator command word: its low byte
PgDelay(cmd) == cmd % Uint8Range

\* the program the pattern generator runs: from address 0 up to and including the
\* first command with a zero delay (the whole memory when there is none)
PgProgram(pg) ==
    LET stops == {a \in PgAddresses : PgDelay(PgCell(pg, a)) = 0} \cup {Uint8Range - 1}
        stop  == CHOOSE a \in stops : \A b \in stops : a <= b
    IN  [i \in 1 .. stop + 1 |-> PgCell(pg, i - 1)]

-----------------------------------------------------------------------------
(* hal::SetupPatternGenerator *)

\* the command word of an entry: uint16_t cmd = first | second
PgCmd(entry) == BitOr(entry[1], entry[2]) % Uint16Range

\* the uint8_t address counter after k increments from 0
PgAddr(k) == k % Uint8Range

\* the remote calls of SetupPatternGenerator(pg_setup): one Pg_SetCmd(addr, cmd) per
\* entry, addr counting up from 0
SetupPatternGeneratorCalls(pg_setup) ==
    [k \in 1 .. Len(pg_setup) |-> VCall("Pg_SetCmd", <<PgAddr(k - 1), PgCmd(pg_setup[k])>>)]


-----------------------------------------------------------------------------
(* Register and DAC settings: rocSetDAC(s), tbmSetReg(s), initROC, initTBM *)

\* hub address written by initTBM and tbmSetReg
ModAddr == 31

\* the keys of a std::map<uint8_t,uint8_t> in iteration order (ascending)
RECURSIVE MapKeys(_)
MapKeys(m) ==
    IF DOMAIN m = {} THEN <<>>
    ELSE LET k == CHOOSE x \in DOMAIN m : \A y \in DOMAIN m : x <= y
         IN  <<k>> \o MapKeys([x \in DOMAIN m \ {k} |-> m[x]])

Flush == VCall("Flush", <<>>)

\* hal::rocSetDAC: what it calls and returns
rocSetDACRun(rocId, dacId, dacValue) ==
    [calls |-> <<VCall("roc_I2cAddr", <<rocId>>), VCall("roc_SetDAC", <<dacId, dacValue>>)>>,
     ret   |-> TRUE]

\* tbmSetReg writing the core-1 register address 0xE0 | regId instead of regId
tbmSetRegRunCoreAddressed(tbmId, regId, regValue) ==
    [calls |-> <<VCall("mod_Addr", <<ModAddr>>),
                 VCall("tbm_Set", <<BitOr(224, regId), regValue>>)>>,
     ret   |-> TRUE]

\* hal::tbmSetReg: what it calls and returns
tbmSetRegRun(tbmId, regId, regValue) ==
    [calls |-> <<VCall("mod_Addr", <<ModAddr>>), VCall("tbm_Set", <<regId, regValue>>)>>,
     ret   |-> TRUE]

\* the loop of rocSetDACs over the keys still to visit, and what follows it
RECURSIVE rocSetDACsFrom(_, _, _)
rocSetDACsFrom(rocId, dacPairs, keys) ==
    IF keys = <<>> THEN [calls |-> <<Flush>>, ret |-> TRUE]
    ELSE LET one == rocSetDACRun(rocId, Head(keys), dacPairs[Head(keys)])
         IN  IF ~one.ret THEN [calls |-> one.calls, ret |-> FALSE]
             ELSE LET rest == rocSetDACsFrom(rocId, dacPairs, Tail(keys))
                  IN  [calls |-> one.calls \o rest.calls, ret |-> rest.ret]

\* hal::rocSetDACs: what it calls and returns
rocSetDACsRun(rocId, dacPairs) == rocSetDACsFrom(rocId, dacPairs, MapKeys(dacPairs))

\* the loop of tbmSetRegs over the keys still to visit, and what follows it
RECURSIVE tbmSetRegsFrom(_, _, _)
tbmSetRegsFrom(tbmId, regPairs, keys) ==
    IF keys = <<>> THEN [calls |-> <<Flush>>, ret |-> TRUE]
    ELSE LET one == tbmSetRegRun(tbmId, Head(keys), regPairs[Head(keys)])
         IN  IF ~one.ret THEN [calls |-> one.calls, ret |-> FALSE]
             ELSE LET rest == tbmSetRegsFrom(tbmId, regPairs, Tail(keys))
                  IN  [calls |-> one.calls \o rest.calls, ret |-> rest.ret]

\* hal::tbmSetRegs: what it calls and returns
tbmSetRegsRun(tbmId, regPairs) == tbmSetRegsFrom(tbmId, regPairs, MapKeys(regPairs))

\* hal::initTBM: the remote calls it issues
initTBMCalls(tbmId, regVector) ==
    <<VCall("tbm_Enable", <<TRUE>>), VCall("mod_Addr", <<ModAddr>>), Flush>>
    \o tbmSetRegsRun(tbmId, regVector).calls

\* hal::initROC: the remote calls it issues
initROCCalls(rocId, dacVector) == rocSetDACsRun(rocId, dacVector).calls

\* an operation that only issues calls: name, arguments, calls, return value
Operation(name, a, cs, r) ==
    /\ op' = name
    /\ args' = a
    /\ calls' = cs
    /\ ret' = r
    /\ dtb' = DtbRun(dtb, cs)
    /\ UNCHANGED <<_initialized, initRan>>

rocSetDAC(rocId, dacId, dacValue) ==
    LET run == rocSetDACRun(rocId, dacId, dacValue)
    IN  Operation("rocSetDAC", [id |-> rocId, pairs |-> (dacId :> dacValue)], run.calls, run.ret)

tbmSetReg(tbmId, regId, regValue) ==
    LET run == tbmSetRegRun(tbmId, regId, regValue)
    IN  Operation("tbmSetReg", [id |-> tbmId, pairs |-> (regId :> regValue)], run.calls, run.ret)

rocSetDACs(rocId, dacPairs) ==
    LET run == rocSetDACsRun(rocId, dacPairs)
    IN  Operation("rocSetDACs", [id |-> rocId, pairs |-> dacPairs], run.calls, run.ret)

tbmSetRegs(tbmId, regPairs) ==
    LET run == tbmSetRegsRun(tbmId, regPairs)
    IN  Operation("tbmSetRegs", [id |-> tbmId, pairs |-> regPairs], run.calls, run.ret)

initTBM(tbmId, regVector) ==
    Operation("initTBM", [id |-> tbmId, pairs |-> regVector], initTBMCalls(tbmId, regVector), <<>>)

SetupPatternGenerator(pg_setup) ==
    Operation("SetupPatternGenerator", [pg_setup |-> pg_setup],
              SetupPatternGeneratorCalls(pg_setup), <<>>)

initROC(rocId, dacVector) ==
    Operation("initROC", [id |-> rocId, pairs |-> dacVector], initROCCalls(rocId, dacVector), <<>>)

-----------------------------------------------------------------------------
(* Calibration: PixelCalibrateMap, RocCalibrateMap *)

\* flag bit selecting the efficiency count as the value of a pixel (constants.h)
FLAG_INTERNAL_GET_EFFICIENCY == 256

\* x & m for an int32_t x and a mask m >= 0 (two's complement for x < 0)
And32(x, m) == IF x >= 0 THEN BitAnd(x, m) ELSE m - BitAnd(-x - 1, m)

\* PixelCalibrateMap with the two branches of the flag test exchanged
PixelCalibrateMapRunSwapped(rocid, column, row, parameter, out) ==
    LET flags     == parameter[1]
        nTriggers == parameter[2]
        newvalue  == IF And32(flags, FLAG_INTERNAL_GET_EFFICIENCY) # 0
                     THEN out.PHsum ELSE out.nReadouts
        newpixel  == [column |-> column, row |-> row, value |-> newvalue, roc_id |-> rocid]
    IN  [calls |-> <<VCall("roc_I2cAddr", <<rocid>>),
                     Call("CalibratePixel", <<nTriggers, column, row>>,
                          <<out.status, out.nReadouts, out.PHsum>>)>>,
         ret   |-> << <<newpixel>> >>]

\* hal::PixelCalibrateMap, out being what CalibratePixel hands back:
\* [status, nReadouts, PHsum]
PixelCalibrateMapRun(rocid, column, row, parameter, out) ==
    LET flags     == parameter[1]
        nTriggers == parameter[2]
        newvalue  == IF And32(flags, FLAG_INTERNAL_GET_EFFICIENCY) # 0
                     THEN out.nReadouts ELSE out.PHsum
        newpixel  == [column |-> column, row |-> row, value |-> newvalue, roc_id |-> rocid]
    IN  [calls |-> <<VCall("roc_I2cAddr", <<rocid>>),
                     Call("CalibratePixel", <<nTriggers, column, row>>,
                          <<out.status, out.nReadouts, out.PHsum>>)>>,
         ret   |-> << <<newpixel>> >>]

\* pixel(address, value): the sample the pixel constructor builds from an address word
PixelFromAddress(address, value) == [value |-> value, address |-> address]

\* RocCalibrateMap comparing only the lengths of nReadouts and PHsum
RocCalibrateMapRunNoAddressCheck(rocid, parameter, out) ==
    LET flags     == parameter[1]
        nTriggers == parameter[2]
        n         == Len(out.nReadouts)
        p         == Len(out.PHsum)
        a         == Min(Len(out.address), n)
        data      == [i \in 1 .. a |->
                        IF And32(flags, FLAG_INTERNAL_GET_EFFICIENCY) # 0
                        THEN PixelFromAddress(out.address[i], out.nReadouts[i])
                        ELSE PixelFromAddress(out.address[i], out.PHsum[i])]
    IN  [calls |-> <<VCall("roc_I2cAddr", <<rocid>>),
                     Call("CalibrateMap", <<nTriggers>>,
                          <<out.status, out.nReadouts, out.PHsum, out.address>>)>>,
         ret   |-> IF n # p THEN <<>> ELSE <<data>>]

\* hal::RocCalibrateMap, out being what CalibrateMap hands back:
\* [status, nReadouts, PHsum, address]
RocCalibrateMapRun(rocid, parameter, out) ==
    LET flags     == parameter[1]
        nTriggers == parameter[2]
        n         == Len(out.nReadouts)
        p         == Len(out.PHsum)
        a         == Len(out.address)
        data      == [i \in 1 .. a |->
                        IF And32(flags, FLAG_INTERNAL_GET_EFFICIENCY) # 0
                        THEN PixelFromAddress(out.address[i], out.nReadouts[i])
                        ELSE PixelFromAddress(out.address[i], out.PHsum[i])]
    IN  [calls |-> <<VCall("roc_I2cAddr", <<rocid>>),
                     Call("CalibrateMap", <<nTriggers>>,
                          <<out.status, out.nReadouts, out.PHsum, out.address>>)>>,
         ret   |-> IF a # n \/ a # p \/ n # p THEN <<>> ELSE <<data>>]

PixelCalibrateMap(rocid, column, row, parameter, out) ==
    LET run == PixelCalibrateMapRun(rocid, column, row, parameter, out)
    IN  Operation("PixelCalibrateMap",
                  [rocid |-> rocid, column |-> column, row |-> row,
                   parameter |-> parameter, out |-> out],
                  run.calls, run.ret)

RocCalibrateMap(rocid, parameter, out) ==
    LET run == RocCalibrateMapRun(rocid, parameter, out)
    IN  Operation("RocCalibrateMap",
                  [rocid |-> rocid, parameter |-> parameter, out |-> out],
                  run.calls, run.ret)

-----------------------------------------------------------------------------
(* DAQ: daqStart, daqTrigger, daqStop, daqRead, daqReset *)

\* uint32_t buffer = 50000000 in daqStart
DaqBufferWords == 50000000

\* daqStart taking a single TBM for none (nTBMs > 1 for nTBMs > 0)
daqStartCallsOneTbmAsNone(deser160phase, nTBMs) ==
    <<VCall("Daq_Open", <<DaqBufferWords, 0>>), VCall("uDelay", <<100>>)>>
    \o (IF nTBMs > 1
        THEN <<VCall("Daq_Open", <<DaqBufferWords, 1>>), VCall("Daq_Select_Deser400", <<>>),
               VCall("Daq_Start", <<1>>)>>
        ELSE <<VCall("Daq_Select_Deser160", <<deser160phase>>)>>)
    \o <<VCall("Daq_Start", <<0>>), VCall("uDelay", <<100>>), Flush>>

\* hal::daqStart: the remote calls it issues
daqStartCalls(deser160phase, nTBMs) ==
    <<VCall("Daq_Open", <<DaqBufferWords, 0>>), VCall("uDelay", <<100>>)>>
    \o (IF nTBMs > 0
        THEN <<VCall("Daq_Open", <<DaqBufferWords, 1>>), VCall("Daq_Select_Deser400", <<>>),
               VCall("Daq_Start", <<1>>)>>
        ELSE <<VCall("Daq_Select_Deser160", <<deser160phase>>)>>)
    \o <<VCall("Daq_Start", <<0>>), VCall("uDelay", <<100>>), Flush>>

\* hal::daqTrigger: the remote calls it issues
daqTriggerCalls(nTrig) ==
    [i \in 1 .. 2 * nTrig |-> IF i % 2 = 1 THEN VCall("Pg_Single", <<>>)
                                           ELSE VCall("uDelay", <<20>>)]

\* daqStop closing the channels instead of stopping them
daqStopCallsClosing(nTBMs) ==
    (IF nTBMs > 0 THEN <<VCall("Daq_Close", <<1>>)>> ELSE <<>>) \o <<VCall("Daq_Close", <<0>>)>>

\* hal::daqStop: the remote calls it issues
daqStopCalls(nTBMs) ==
    (IF nTBMs > 0 THEN <<VCall("Daq_Stop", <<1>>)>> ELSE <<>>) \o <<VCall("Daq_Stop", <<0>>)>>

\* hal::daqReset: the remote calls it issues
daqResetCalls(nTBMs) ==
    (IF nTBMs > 0 THEN <<VCall("Daq_Close", <<1>>)>> ELSE <<>>) \o <<VCall("Daq_Close", <<0>>)>>

\* Daq_GetSize(channel) on testboard d
DaqGetSize(d, channel) == Call("Daq_GetSize", <<channel>>, <<Len(d.buf[channel])>>)

\* Daq_Read(data, blocksize, availsize, channel) on testboard d: the first blocksize
\* words of the channel's buffer (all of them when it holds fewer), and how many stay
DaqRead(d, blocksize, channel) ==
    LET got == Min(blocksize, Len(d.buf[channel]))
    IN  Call("Daq_Read", <<blocksize, channel>>,
             <<SubSeq(d.buf[channel], 1, got), Len(d.buf[channel]) - got>>)

\* the testboard after a Daq_Read call c: the words read have left the buffer
DaqAfterRead(d, c) ==
    [d EXCEPT !.buf[c.a[2]] = SubSeq(@, Len(c.r[1]) + 1, Len(@))]

\* daqRead asking channel 1 for the number of words channel 0 reported
daqReadRunOneSize(d, nTBMs) ==
    LET size0 == DaqGetSize(d, 0)
        size1 == DaqGetSize(d, 1)
        buffersize_ch0 == size0.r[1]
        read0 == DaqRead(d, buffersize_ch0, 0)
        d0    == DaqAfterRead(d, read0)
        read1 == DaqRead(d0, buffersize_ch0, 1)
        d1    == DaqAfterRead(d0, read1)
    IN  IF nTBMs > 0
        THEN [calls |-> <<size0, size1, read0, read1>>,
              ret   |-> read0.r[1] \o read1.r[1],
              dtb   |-> d1]
        ELSE [calls |-> <<size0, read0>>,
              ret   |-> read0.r[1],
              dtb   |-> d0]

\* hal::daqRead on testboard d: what it calls and returns, and the testboard after it
daqReadRun(d, nTBMs) ==
    LET size0 == DaqGetSize(d, 0)
        size1 == DaqGetSize(d, 1)
        buffersize_ch0 == size0.r[1]
        buffersize_ch1 == size1.r[1]
        read0 == DaqRead(d, buffersize_ch0, 0)
        d0    == DaqAfterRead(d, read0)
        read1 == DaqRead(d0, buffersize_ch1, 1)
        d1    == DaqAfterRead(d0, read1)
    IN  IF nTBMs > 0
        THEN [calls |-> <<size0, size1, read0, read1>>,
              ret   |-> read0.r[1] \o read1.r[1],
              dtb   |-> d1]
        ELSE [calls |-> <<size0, read0>>,
              ret   |-> read0.r[1],
              dtb   |-> d0]

daqStart(deser160phase, nTBMs) ==
    Operation("daqStart", [deser160phase |-> deser160phase, nTBMs |-> nTBMs],
              daqStartCalls(deser160phase, nTBMs), TRUE)

\* data0, data1: the words the running channels record for the triggers
daqTrigger(nTrig, data0, data1) ==
    /\ \A c \in Channels : dtb.on[c] => Len(dtb.buf[c]) + nTrig <= MaxBuf
    /\ op' = "daqTrigger"
    /\ args' = [nTrig |-> nTrig]
    /\ calls' = daqTriggerCalls(nTrig)
    /\ ret' = <<>>
    /\ dtb' = [dtb EXCEPT !.buf[0] = IF dtb.on[0] THEN @ \o data0 ELSE @,
                          !.buf[1] = IF dtb.on[1] THEN @ \o data1 ELSE @]
    /\ UNCHANGED <<_initialized, initRan>>

daqStop(nTBMs) == Operation("daqStop", [nTBMs |-> nTBMs], daqStopCalls(nTBMs), TRUE)

daqRead(nTBMs) ==
    LET run == daqReadRun(dtb, nTBMs)
    IN  /\ op' = "daqRead"
        /\ args' = [nTBMs |-> nTBMs]
        /\ calls' = run.calls
        /\ ret' = run.ret
        /\ dtb' = run.dtb
        /\ UNCHANGED <<_initialized, initRan>>

daqReset(nTBMs) == Operation("daqReset", [nTBMs |-> nTBMs], daqResetCalls(nTBMs), TRUE)

-----------------------------------------------------------------------------
(* Testboard power switches *)

HVon == Operation("HVon", <<>>, <<VCall("HVon", <<>>), Flush>>, <<>>)

HVoff == Operation("HVoff", <<>>, <<VCall("HVoff", <<>>), Flush>>, <<>>)

Pon == Operation("Pon", <<>>, <<VCall("Pon", <<>>), Flush>>, <<>>)

Poff == Operation("Poff", <<>>, <<VCall("Poff", <<>>), Flush>>, <<>>)

-----------------------------------------------------------------------------
(* hal::initTestboard and hal::status *)

\* key of the deserializer phase among the signal delays (constants.h)
SIG_DESER160PHASE == 4

\* level every delayed signal is set to
SigLevel == 15

\* the values uint16_t(x) may take: x itself when it fits, and any of these when the
\* conversion of an out-of-range double is undefined
Uint16Of(x) == IF x \in 0 .. Uint16Range - 1 THEN {x} ELSE {0, x % Uint16Range, Uint16Range - 1}

\* setTBva, setTBvd, setTBia, setTBid and the Flush after them; the arguments are
\* the uint16_t values handed to _SetVA, _SetVD, _SetIA, _SetID
PowerCalls(va16, vd16, ia16, id16) ==
    <<VCall("_SetVA", <<va16>>), VCall("_SetVD", <<vd16>>),
      VCall("_SetIA", <<ia16>>), VCall("_SetID", <<id16>>), Flush>>

\* the loop of initTestboard over the signal delays, and the Flush after it
RECURSIVE DelayCalls(_, _)
DelayCalls(sig_delays, keys) ==
    IF keys = <<>> THEN <<Flush>>
    ELSE LET k == Head(keys)
         IN  (IF k = SIG_DESER160PHASE
              THEN <<VCall("Daq_Select_Deser160", <<sig_delays[k]>>)>>
              ELSE <<VCall("Sig_SetDelay", <<k, sig_delays[k]>>),
                     VCall("Sig_SetLevel", <<k, SigLevel>>)>>)
             \o DelayCalls(sig_delays, Tail(keys))

\* hal::initTestboard: the remote calls it issues
initTestboardCalls(sig_delays, pg_setup, va16, vd16, ia16, id16) ==
    PowerCalls(va16, vd16, ia16, id16)
    \o DelayCalls(sig_delays, MapKeys(sig_delays))
    \o SetupPatternGeneratorCalls(pg_setup)

\* va, vd in units of 0.1 mV and ia, id in units of 0.1 mA, so that VA*1000 is
\* va \div 10 and IA*10000 is ia
initTestboard(sig_delays, pg_setup, va, vd, ia, id) ==
    \E va16 \in Uint16Of(va \div 10), vd16 \in Uint16Of(vd \div 10),
       ia16 \in Uint16Of(ia), id16 \in Uint16Of(id) :
        /\ op' = "initTestboard"
        /\ args' = [pg_setup |-> pg_setup, sig_delays |-> sig_delays]
        /\ calls' = initTestboardCalls(sig_delays, pg_setup, va16, vd16, ia16, id16)
        /\ ret' = <<>>
        /\ dtb' = DtbRun(dtb, calls')
        /\ _initialized' = TRUE
        /\ initRan' = TRUE

\* status() answering true whatever the flag
statusRetAlwaysTrue(initialized) == TRUE

\* what status() returns
statusRet(initialized) == initialized

status ==
    /\ op' = "status"
    /\ args' = <<>>
    /\ calls' = <<>>
    /\ ret' = statusRet(_initialized)
    /\ UNCHANGED <<_initialized, initRan, dtb>>

-----------------------------------------------------------------------------
(* hal::flashTestboard *)

(* The flash file is the text  lines[1] \n lines[2] \n ... lines[n] \n tail :  *)
(* lines are the newline-terminated lines, tail is what follows the last      *)
(* newline ("" when the file ends with a newline or is empty).  errAt is the   *)
(* number of the getline call of the download loop that meets a read error    *)
(* (0: none).  The line count of lines 154..157 is not used afterwards; that   *)
(* pass leaves the stream cleared and rewound, so the download loop starts at  *)
(* the first line.                                                            *)

\* firmware version flashTestboard accepts and passes to UpgradeStart
FlashVersion == 256

\* the k-th getline(flashFile, rec) of the download loop: the line it extracts and
\* the stream state it leaves (good: no bit set; eof: eofbit; bad: neither)
Getline(file, k) ==
    IF file.errAt = k THEN [rec |-> "", stream |-> "bad"]
    ELSE IF k <= Len(file.lines) THEN [rec |-> file.lines[k], stream |-> "good"]
    ELSE [rec |-> file.tail, stream |-> "eof"]

\* result of the n-th UpgradeData call when the testboard rejects the failAt-th
DataResult(failAt, n) == IF n = failAt THEN 1 ELSE 0

RECURSIVE Download(_, _, _, _, _)
\* the download loop from its k-th getline on, recordCount records counted and sent
\* so far: the calls it issues, whether it reached the end of the loop (done),
\* the record count and the state it leaves the stream in
Download(file, failAt, k, recordCount, sent) ==
    LET got == Getline(file, k)
    IN  IF got.stream = "good"
        THEN IF got.rec = "" THEN Download(file, failAt, k + 1, recordCount, sent)
             ELSE LET count == (recordCount + 1) % Uint16Range
                      res   == DataResult(failAt, sent + 1)
                      data  == Call("UpgradeData", <<got.rec>>, <<res>>)
                  IN  IF res # 0
                      THEN [calls |-> <<data, VCall("UpgradeErrorMsg", <<>>)>>,
                            stream |-> "good", recordCount |-> count, done |-> FALSE]
                      ELSE LET rest == Download(file, failAt, k + 1, count, sent + 1)
                           IN  [rest EXCEPT !.calls = <<data>> \o rest.calls]
        ELSE IF got.stream = "eof"
        THEN [calls |-> <<>>, stream |-> "eof", recordCount |-> recordCount, done |-> TRUE]
        ELSE [calls |-> <<>>, stream |-> "bad", recordCount |-> recordCount, done |-> FALSE]

\* flashTestboard writing the flash whatever UpgradeError returns
flashTestboardRunUncheckedError(file, version, started, failAt, error) ==
    LET getVersion == Call("UpgradeGetVersion", <<>>, <<version>>)
        start      == Call("UpgradeStart", <<FlashVersion>>, <<started>>)
        load       == Download(file, failAt, 1, 0, 0)
        upgradeErr == Call("UpgradeError", <<>>, <<error>>)
    IN  IF version # FlashVersion
        THEN [calls |-> <<getVersion>>, ret |-> FALSE, stream |-> "good"]
        ELSE IF started # 0
        THEN [calls |-> <<getVersion, start, VCall("UpgradeErrorMsg", <<>>)>>,
              ret |-> FALSE, stream |-> "good"]
        ELSE IF ~load.done
        THEN [calls |-> <<getVersion, start>> \o load.calls,
              ret |-> FALSE, stream |-> load.stream]
        ELSE [calls |-> <<getVersion, start>> \o load.calls
                        \o <<upgradeErr, VCall("UpgradeExec", <<load.recordCount>>), Flush>>,
              ret |-> TRUE, stream |-> load.stream]

\* hal::flashTestboard: what it calls and returns and the state it leaves the stream
\* in, for the version, UpgradeStart and UpgradeError results of the testboard
flashTestboardRun(file, version, started, failAt, error) ==
    LET getVersion == Call("UpgradeGetVersion", <<>>, <<version>>)
        start      == Call("UpgradeStart", <<FlashVersion>>, <<started>>)
        load       == Download(file, failAt, 1, 0, 0)
        upgradeErr == Call("UpgradeError", <<>>, <<error>>)
    IN  IF version # FlashVersion
        THEN [calls |-> <<getVersion>>, ret |-> FALSE, stream |-> "good"]
        ELSE IF started # 0
        THEN [calls |-> <<getVersion, start, VCall("UpgradeErrorMsg", <<>>)>>,
              ret |-> FALSE, stream |-> "good"]
        ELSE IF ~load.done
        THEN [calls |-> <<getVersion, start>> \o load.calls,
              ret |-> FALSE, stream |-> load.stream]
        ELSE IF error # 0
        THEN [calls |-> <<getVersion, start>> \o load.calls
                        \o <<upgradeErr, VCall("UpgradeErrorMsg", <<>>)>>,
              ret |-> FALSE, stream |-> load.stream]
        ELSE [calls |-> <<getVersion, start>> \o load.calls
                        \o <<upgradeErr, VCall("UpgradeExec", <<load.recordCount>>), Flush>>,
              ret |-> TRUE, stream |-> load.stream]

\* args holds the state flashTestboard leaves the stream in, and the file
flashTestboard(file, version, started, failAt, error) ==
    LET run == flashTestboardRun(file, version, started, failAt, error)
    IN  Operation("flashTestboard", [stream |-> run.stream, flashFile |-> file],
                  run.calls, run.ret)

-----------------------------------------------------------------------------
(* Inputs *)

\* chip and module ids (uint8_t)
ChipIds == {0, 15}
\* register / DAC identifiers and values (uint8_t)
RegIds == {1, 12, 254}
RegValues == {0, 255}
\* every std::map<uint8_t,uint8_t> over these identifiers and values
RegMaps == UNION {[D -> RegValues] : D \in SUBSET RegIds}

\* pixel columns and rows (uint8_t)
Columns == {0, 51}
Rows == {0, 79}
\* flags (int32_t): none, other bits only, the efficiency bit, all bits
FlagValues == {0, 2, FLAG_INTERNAL_GET_EFFICIENCY, -1}
TriggerCounts == {10}
\* what the calibration calls hand back: status, efficiency counts (int16_t),
\* pulse-height sums (int32_t), address words (uint32_t)
StatusValues == {0}
ReadoutValues == {0, 7}
PHsumValues == {-3, 1200}
PixelOuts == {[PHsum |-> p, nReadouts |-> n, status |-> s] :
                s \in StatusValues, n \in ReadoutValues, p \in PHsumValues}
\* result arrays of every length up to MaxMapLen, the three lengths independent of
\* each other, with pairwise different entries
ReadoutArrays == {[i \in 1 .. n |-> 10 - i] : n \in 0 .. MaxMapLen}
PHsumArrays == {[i \in 1 .. n |-> 1200 * i - 2000] : n \in 0 .. MaxMapLen}
AddressArrays == {[i \in 1 .. n |-> 4660 + 256 * i] : n \in 0 .. MaxMapLen}
                 \cup {[i \in 1 .. n |-> 86 - i] : n \in 0 .. MaxMapLen}
MapOuts == {[PHsum |-> p, nReadouts |-> n, status |-> s, address |-> a] :
              s \in StatusValues, n \in ReadoutArrays, p \in PHsumArrays, a \in AddressArrays}

\* DAQ: deserializer phases, numbers of TBMs, recorded words (uint16_t)
Phases == {0, 4}
TbmCounts == {0, 1, 2}
DaqWords == {32768, 17}

\* initTestboard: signal-delay maps, voltages (0.1 mV) and current limits (0.1 mA);
\* 70000 is a limit whose uint16_t conversion is out of range
SigDelayMaps == UNION {[D -> {20}] : D \in SUBSET {0, SIG_DESER160PHASE}}
Voltages == {19000}
Currents == {12000, 70000}
InitPrograms == {<<>>, << <<2048, 25>>, <<256, 0>> >>}

\* the inputs of the specification of all operations together
FewRegMaps == {<<>>, (1 :> 0) @@ (254 :> 255)}
FewTbmCounts == {0, 1}
FewFlags == {0, FLAG_INTERNAL_GET_EFFICIENCY}
FewPixelOuts == {[PHsum |-> 1200, nReadouts |-> 7, status |-> 0]}
FewMapOuts == {[PHsum |-> <<1200>>, nReadouts |-> <<7>>, status |-> 0, address |-> a] :
                 a \in {<<>>, <<4660>>}}

\* pattern words (uint16_t) and delays (uint8_t) of pattern-generator entries
PgPatterns == {256, 2048}
PgDelays == {0, 5, 255}
PgEntries == PgPatterns \X PgDelays

\* a program longer than the uint8_t address range
LongPgProgram == [k \in 1 .. LongPgLen |-> IF k = LongPgLen THEN <<256, 0>> ELSE <<2048, 5>>]

PgPrograms == SeqsUpTo(PgEntries, MaxPgLen) \cup {LongPgProgram}

\* flash files: up to MaxLines terminated lines, then an unterminated rest
FlashRecords == {":10", ":20"}
FlashLines == SeqsUpTo(FlashRecords \cup {""}, MaxLines)
FlashTails == {"", ":00"}
\* getline calls that may meet a read error: none, the first, the one at end of file
ErrorPoints(l) == {0, 1, Len(l) + 1}
FlashFiles ==
    {[errAt |-> f[2], lines |-> f[1], tail |-> t] :
        f \in UNION {{<<l, e>> : e \in ErrorPoints(l)} : l \in FlashLines}, t \in FlashTails}
\* answers of the testboard: <<version, UpgradeStart result, UpgradeError result>>
UpgradeAnswers == {<<FlashVersion, 0, 0>>, <<257, 0, 0>>, <<FlashVersion, 1, 0>>,
                   <<FlashVersion, 0, 1>>, <<257, 1, 1>>}
\* UpgradeData calls the testboard may reject: none, the first, the last
FailPoints == {0, 1, MaxLines}
FewFlashFiles ==
    {[errAt |-> e, lines |-> l, tail |-> ""] : l \in {<<":10">>}, e \in {0, 1}}

-----------------------------------------------------------------------------
(* Specifications *)

Init ==
    /\ _initialized = FALSE
    /\ initRan = FALSE
    /\ op = "hal"
    /\ args = <<>>
    /\ calls = <<>>
    /\ ret = <<>>
    /\ dtb = DtbInit

DoSetupPatternGenerator == \E pg_setup \in PgPrograms : SetupPatternGenerator(pg_setup)

NextPG == DoSetupPatternGenerator

SpecPG == Init /\ [][NextPG]_vars

DoRocSetDAC ==
    \E rocId \in ChipIds, dacId \in RegIds, dacValue \in RegValues : rocSetDAC(rocId, dacId, dacValue)
DoTbmSetReg ==
    \E tbmId \in ChipIds, regId \in RegIds, regValue \in RegValues : tbmSetReg(tbmId, regId, regValue)
DoRocSetDACs == \E rocId \in ChipIds, dacPairs \in RegMaps : rocSetDACs(rocId, dacPairs)
DoTbmSetRegs == \E tbmId \in ChipIds, regPairs \in RegMaps : tbmSetRegs(tbmId, regPairs)
DoInitROC == \E rocId \in ChipIds, dacVector \in RegMaps : initROC(rocId, dacVector)
DoInitTBM == \E tbmId \in ChipIds, regVector \in RegMaps : initTBM(tbmId, regVector)

NextReg ==
    \/ DoRocSetDAC
    \/ DoTbmSetReg
    \/ DoRocSetDACs
    \/ DoTbmSetRegs
    \/ DoInitROC
    \/ DoInitTBM

SpecReg == Init /\ [][NextReg]_vars

DoPixelCalibrateMap ==
    \E rocid \in ChipIds, column \in Columns, row \in Rows,
       flags \in FlagValues, nTriggers \in TriggerCounts, out \in PixelOuts :
        PixelCalibrateMap(rocid, column, row, <<flags, nTriggers>>, out)
DoRocCalibrateMap ==
    \E rocid \in ChipIds, flags \in FlagValues, nTriggers \in TriggerCounts, out \in MapOuts :
        RocCalibrateMap(rocid, <<flags, nTriggers>>, out)

NextCal ==
    \/ DoPixelCalibrateMap
    \/ DoRocCalibrateMap

SpecCal == Init /\ [][NextCal]_vars

DoDaqStart == \E deser160phase \in Phases, nTBMs \in TbmCounts : daqStart(deser160phase, nTBMs)
DoDaqTrigger ==
    \E nTrig \in 0 .. MaxTrig :
        \E data0 \in SeqsOfLen(DaqWords, nTrig), data1 \in SeqsOfLen(DaqWords, nTrig) :
            daqTrigger(nTrig, data0, data1)
DoDaqStop == \E nTBMs \in TbmCounts : daqStop(nTBMs)
DoDaqRead == \E nTBMs \in TbmCounts : daqRead(nTBMs)
DoDaqReset == \E nTBMs \in TbmCounts : daqReset(nTBMs)

NextDaq ==
    \/ DoDaqStart
    \/ DoDaqTrigger
    \/ DoDaqStop
    \/ DoDaqRead
    \/ DoDaqReset

SpecDaq == Init /\ [][NextDaq]_vars

DoFlashTestboard ==
    \E file \in FlashFiles, answer \in UpgradeAnswers, failAt \in FailPoints :
        flashTestboard(file, answer[1], answer[2], failAt, answer[3])

NextFlash == DoFlashTestboard

SpecFlash == Init /\ [][NextFlash]_vars


AnyInitTestboard ==
    \E sig_delays \in SigDelayMaps, pg_setup \in InitPrograms,
       va \in Voltages, vd \in Voltages, ia \in {12000}, id \in Currents :
        initTestboard(sig_delays, pg_setup, va, vd, ia, id)
AnySetupPatternGenerator == \E pg_setup \in InitPrograms : SetupPatternGenerator(pg_setup)
AnyRegisterSetting ==
    \E id \in {15} :
        \/ \E pairs \in FewRegMaps :
            \/ rocSetDACs(id, pairs)
            \/ tbmSetRegs(id, pairs)
            \/ initROC(id, pairs)
            \/ initTBM(id, pairs)
        \/ \E regId \in {12}, regValue \in {255} :
            \/ rocSetDAC(id, regId, regValue)
            \/ tbmSetReg(id, regId, regValue)
AnyCalibration ==
    \E rocid \in {0}, flags \in FewFlags :
        \/ \E out \in FewPixelOuts : PixelCalibrateMap(rocid, 51, 79, <<flags, 10>>, out)
        \/ \E out \in FewMapOuts : RocCalibrateMap(rocid, <<flags, 10>>, out)
AnyDaq ==
    \E nTBMs \in FewTbmCounts :
        \/ \E deser160phase \in Phases : daqStart(deser160phase, nTBMs)
        \/ daqTrigger(1, <<17>>, <<32768>>)
        \/ daqStop(nTBMs)
        \/ daqRead(nTBMs)
        \/ daqReset(nTBMs)
AnyPowerSwitch == HVon \/ HVoff \/ Pon \/ Poff
AnyFlashTestboard ==
    \E file \in FewFlashFiles, version \in {FlashVersion, 257} :
        flashTestboard(file, version, 0, 0, 0)

Next ==
    \/ status
    \/ AnyInitTestboard
    \/ AnySetupPatternGenerator
    \/ AnyRegisterSetting
    \/ AnyCalibration
    \/ AnyDaq
    \/ AnyPowerSwitch
    \/ AnyFlashTestboard

Spec == Init /\ [][Next]_vars

-----------------------------------------------------------------------------
(* Claims C1, C2: the pattern-generator program (checked under SpecPG) *)

\* the positions of a trace whose call is to a function in F
Positions(cs, F) == {i \in 1 .. Len(cs) : cs[i].f \in F}

\* C1: SetupPatternGenerator issues exactly one Pg_SetCmd per entry of pg_setup, in
\* order, the k-th entry (k = 0..n-1) going to address k with command word
\* (pattern OR delay); the addresses are consecutive from 0 and pairwise distinct.
C1_EntryKAtAddressK ==
    op = "SetupPatternGenerator" =>
        LET pg_setup == args.pg_setup
            n        == Len(pg_setup)
        IN  /\ Len(calls) = n
            /\ \A k \in 1 .. n :
                calls[k] = VCall("Pg_SetCmd", <<k - 1, BitOr(pg_setup[k][1], pg_setup[k][2])>>)
            /\ \A i, j \in 1 .. n : i # j => calls[i].a[1] # calls[j].a[1]

\* C2: after SetupPatternGenerator has written a program, its last command has a
\* zero delay, and the program the device holds from address 0 up to and including
\* the first zero-delay command is exactly the entry sequence of that call.
C2_DeviceRunsMostRecentProgram ==
    (op = "SetupPatternGenerator" /\ args.pg_setup # <<>>) =>
        LET pg_setup == args.pg_setup
            n        == Len(pg_setup)
        IN  /\ PgDelay(calls[n].a[2]) = 0
            /\ PgProgram(dtb.pg) = [k \in 1 .. n |-> BitOr(pg_setup[k][1], pg_setup[k][2])]

-----------------------------------------------------------------------------
(* Claims C3, C4: register and DAC settings (checked under SpecReg) *)

RegisterWrites == {"roc_SetDAC", "tbm_Set"}

C4_SingleSettingFlushed ==
    op \in {"rocSetDAC", "tbmSetReg"} =>
        \E i \in Positions(calls, RegisterWrites) :
            \E j \in Positions(calls, {"Flush"}) : i < j

-----------------------------------------------------------------------------
(* Claims C5, C6: calibration results (checked under SpecCal) *)

\* bit b (a power of two) is set in the two's-complement integer x
HasBit(x, b) == (x \div b) % 2 = 1

\* C5: PixelCalibrateMap returns exactly one vector with exactly one pixel, whose
\* column, row and chip identifier are the arguments and whose value is the
\* nReadouts of CalibratePixel when flags has FLAG_INTERNAL_GET_EFFICIENCY set and
\* its PHsum otherwise.
C5_OnePixelWithSelectedValue ==
    op = "PixelCalibrateMap" =>
        LET got == Only(calls, {"CalibratePixel"})
        IN  /\ Len(got) = 1
            /\ Len(ret) = 1
            /\ Len(ret[1]) = 1
            /\ ret[1][1].column = args.column
            /\ ret[1][1].row = args.row
            /\ ret[1][1].roc_id = args.rocid
            /\ ret[1][1].value = IF HasBit(args.parameter[1], FLAG_INTERNAL_GET_EFFICIENCY)
                                 THEN got[1].r[2] ELSE got[1].r[3]

\* PixelCalibrateMap has returned an efficiency count for flags with every bit set
C5_Witness ==
    /\ op = "PixelCalibrateMap"
    /\ args.parameter[1] = -1
    /\ args.out.nReadouts # args.out.PHsum
    /\ ret[1][1].value = args.out.nReadouts

\* C6: RocCalibrateMap returns an empty result whenever the three arrays of
\* CalibrateMap do not all have the same length; otherwise exactly one vector with
\* one pixel per address, in address order, pixel i built from address[i] with value
\* nReadouts[i] when flags has FLAG_INTERNAL_GET_EFFICIENCY set and PHsum[i] otherwise.
C6_EmptyOnMismatchElseOnePixelPerAddress ==
    op = "RocCalibrateMap" =>
        LET got       == Only(calls, {"CalibrateMap"})
            nReadouts == got[1].r[2]
            PHsum     == got[1].r[3]
            address   == got[1].r[4]
            same      == Len(nReadouts) = Len(PHsum) /\ Len(PHsum) = Len(address)
        IN  /\ Len(got) = 1
            /\ ~same => ret = <<>>
            /\ same =>
                /\ Len(ret) = 1
                /\ Len(ret[1]) = Len(address)
                /\ \A i \in 1 .. Len(address) :
                    ret[1][i] = PixelFromAddress(address[i],
                                    IF HasBit(args.parameter[1], FLAG_INTERNAL_GET_EFFICIENCY)
                                    THEN nReadouts[i] ELSE PHsum[i])

\* RocCalibrateMap has returned nothing because only the address array was shorter
C6_Witness ==
    /\ op = "RocCalibrateMap"
    /\ Len(args.out.nReadouts) = Len(args.out.PHsum)
    /\ Len(args.out.address) < Len(args.out.PHsum)
    /\ ret = <<>>

-----------------------------------------------------------------------------
(* Claims C7, C8, C9: DAQ sessions (checked under SpecDaq) *)

\* the positions of a trace that hold exactly the call c
At(cs, c) == {i \in 1 .. Len(cs) : cs[i] = c}

\* every position of I comes before every position of J
Before(I, J) == \A i \in I : \A j \in J : i < j

\* C7: daqStart opens and starts channel 0 always and channel 1 iff nTBMs > 0, each
\* channel's Daq_Open before its Daq_Start; Daq_Select_Deser400 is issued iff
\* nTBMs > 0 and Daq_Select_Deser160(deser160phase) iff nTBMs = 0, before
\* Daq_Start(0); the calls end with a Flush and daqStart returns true.
C7_DaqStartSequence ==
    op = "daqStart" =>
        LET open(c)  == At(calls, VCall("Daq_Open", <<DaqBufferWords, c>>))
            start(c) == At(calls, VCall("Daq_Start", <<c>>))
            d400     == Positions(calls, {"Daq_Select_Deser400"})
            d160     == Positions(calls, {"Daq_Select_Deser160"})
            with1    == args.nTBMs > 0
        IN  /\ Cardinality(open(0)) = 1 /\ Cardinality(start(0)) = 1
            /\ Cardinality(open(1)) = (IF with1 THEN 1 ELSE 0)
            /\ Cardinality(start(1)) = (IF with1 THEN 1 ELSE 0)
            /\ Cardinality(Positions(calls, {"Daq_Open"})) = (IF with1 THEN 2 ELSE 1)
            /\ Cardinality(Positions(calls, {"Daq_Start"})) = (IF with1 THEN 2 ELSE 1)
            /\ Before(open(0), start(0)) /\ Before(open(1), start(1))
            /\ Cardinality(d400) = (IF with1 THEN 1 ELSE 0)
            /\ Cardinality(d160) = (IF with1 THEN 0 ELSE 1)
            /\ d160 = At(calls, VCall("Daq_Select_Deser160", <<args.deser160phase>>))
            /\ Before(d400, start(0)) /\ Before(d160, start(0))
            /\ calls[Len(calls)] = Flush
            /\ ret = TRUE

\* daqStart has opened and started both channels of a module with two TBMs
C7_Witness ==
    /\ op = "daqStart"
    /\ args.nTBMs = 2
    /\ dtb.on[0] /\ dtb.on[1]
    /\ Positions(calls, {"Daq_Select_Deser400"}) # {}

\* the words daqRead(nTBMs) is to hand back from testboard d
Recorded(d, nTBMs) == d.buf[0] \o (IF nTBMs > 0 THEN d.buf[1] ELSE <<>>)

\* C8: daqStop issues only Daq_Stop, on channel 0 and (iff nTBMs > 0) channel 1, and
\* leaves every buffer open with its data, so a daqRead with the same nTBMs right
\* after it hands back what was recorded before the stop; a buffer is closed by
\* daqReset only, which closes channel 0 and (iff nTBMs > 0) channel 1.
C8_StopKeepsDataResetCloses ==
    [][/\ op' = "daqStop" =>
            /\ Positions(calls', {"Daq_Stop"}) = 1 .. Len(calls')
            /\ {calls'[i].a[1] : i \in 1 .. Len(calls')}
                 = (IF args'.nTBMs > 0 THEN {0, 1} ELSE {0})
            /\ dtb'.buf = dtb.buf
            /\ dtb'.open = dtb.open
       /\ (op = "daqStop" /\ op' = "daqRead" /\ args'.nTBMs = args.nTBMs) =>
            ret' = Recorded(dtb, args.nTBMs)
       /\ \A c \in Channels : (dtb.open[c] /\ ~dtb'.open[c]) =>
            (op' = "daqReset" /\ (c = 0 \/ args'.nTBMs > 0))
       /\ op' = "daqReset" =>
            \A c \in Channels : (c = 0 \/ args'.nTBMs > 0) => ~dtb'.open[c]
      ]_vars

\* daqStop has stopped both channels and both still hold recorded words
C8_Witness ==
    /\ op = "daqStop"
    /\ args.nTBMs > 0
    /\ dtb.open[0] /\ dtb.open[1]
    /\ ~dtb.on[0] /\ ~dtb.on[1]
    /\ dtb.buf[0] # <<>> /\ dtb.buf[1] # <<>>

\* C9: daqRead asks each channel for exactly the number of words Daq_GetSize
\* reported for it and returns the words read from channel 0 followed (iff
\* nTBMs > 0) by the words read from channel 1; channel 1 is neither sized nor read
\* when nTBMs = 0.
C9_ReadWhatGetSizeReported ==
    op = "daqRead" =>
        LET sizes    == Only(calls, {"Daq_GetSize"})
            reads    == Only(calls, {"Daq_Read"})
            channels == IF args.nTBMs > 0 THEN <<0, 1>> ELSE <<0>>
        IN  /\ Len(calls) = Len(sizes) + Len(reads)
            /\ [i \in 1 .. Len(sizes) |-> sizes[i].a[1]] = channels
            /\ [i \in 1 .. Len(reads) |-> reads[i].a[2]] = channels
            /\ \A i \in 1 .. Len(reads) : reads[i].a[1] = sizes[i].r[1]
            /\ \A c \in 1 .. Len(channels) :
                Before(At(calls, sizes[c]), At(calls, reads[c]))
            /\ ret = reads[1].r[1] \o (IF args.nTBMs > 0 THEN reads[2].r[1] ELSE <<>>)

\* daqRead has handed back words of both channels, which held different numbers of them
C9_Witness ==
    /\ op = "daqRead"
    /\ args.nTBMs > 0
    /\ Len(calls) = 4
    /\ calls[3].r[1] # <<>> /\ calls[4].r[1] # <<>>
    /\ Len(calls[3].r[1]) # Len(calls[4].r[1])
    /\ ret = calls[3].r[1] \o calls[4].r[1]

-----------------------------------------------------------------------------
(* Claim C10: the initialized flag (checked under Spec, all operations) *)

DelaySetters == {"Sig_SetDelay", "Sig_SetLevel", "Daq_Select_Deser160"}

\* the calls of initTestboard come in three parts: the four power settings and a
\* Flush, the delay settings of sig_delays and a Flush, the pattern-generator program
InitOrder ==
    LET flushes == Positions(calls, {"Flush"})
        second  == CHOOSE i \in flushes : i > 5
        pg      == Len(args.pg_setup)
    IN  /\ Len(calls) >= 6
        /\ [i \in 1 .. 5 |-> calls[i].f] = <<"_SetVA", "_SetVD", "_SetIA", "_SetID", "Flush">>
        /\ Cardinality(flushes) = 2
        /\ \A i \in 6 .. second - 1 : calls[i].f \in DelaySetters
        /\ \A k \in DOMAIN args.sig_delays :
            IF k = SIG_DESER160PHASE
            THEN \E i \in 6 .. second - 1 :
                    calls[i] = VCall("Daq_Select_Deser160", <<args.sig_delays[k]>>)
            ELSE \E i \in 6 .. second - 1 :
                    calls[i] = VCall("Sig_SetDelay", <<k, args.sig_delays[k]>>)
        /\ Len(calls) = second + pg
        /\ \A i \in second + 1 .. Len(calls) : calls[i].f = "Pg_SetCmd"

\* C10: status() returns true iff initTestboard has run to completion: the flag is
\* false after construction, becomes true only by initTestboard, after the power
\* settings were set and flushed, the delays set and flushed and the pattern
\* generator programmed, in that order; no operation sets it back to false; status()
\* changes no state and issues no remote call.
C10_StatusIffInitTestboardRan ==
    /\ [](_initialized = initRan)
    /\ [](op = "hal" => ~_initialized)
    /\ [](op = "status" => (ret = initRan /\ calls = <<>>))
    /\ [](op = "initTestboard" => (_initialized /\ InitOrder))
    /\ [][/\ _initialized => _initialized'
          /\ (~_initialized /\ _initialized') => op' = "initTestboard"
          /\ op' = "status" => UNCHANGED <<_initialized, dtb>>
         ]_vars

\* status() has returned true after initTestboard set delays and wrote a program
C10_Witness ==
    /\ op = "status"
    /\ ret = TRUE
    /\ initRan
    /\ dtb.pg # <<>>

-----------------------------------------------------------------------------
(* Claims C11, C12: the firmware upgrade (checked under SpecFlash) *)

\* the call at position i reports a failure to flashTestboard
UpgradeFailed(cs, i) ==
    \/ cs[i].f = "UpgradeGetVersion" /\ cs[i].r # <<FlashVersion>>
    \/ cs[i].f \in {"UpgradeStart", "UpgradeData", "UpgradeError"} /\ cs[i].r # <<0>>

\* every condition flashTestboard depends on was met: the version is FlashVersion,
\* UpgradeStart(FlashVersion), every UpgradeData and UpgradeError returned 0, and
\* the stream reached end-of-file without a read error
UpgradeAllOk ==
    LET version == Only(calls, {"UpgradeGetVersion"})
        start   == Only(calls, {"UpgradeStart"})
        error   == Only(calls, {"UpgradeError"})
    IN  /\ Len(version) = 1 /\ version[1].r = <<FlashVersion>>
        /\ Len(start) = 1 /\ start[1].a = <<FlashVersion>> /\ start[1].r = <<0>>
        /\ \A i \in DOMAIN calls : ~UpgradeFailed(calls, i)
        /\ args.stream = "eof"
        /\ Len(error) = 1 /\ error[1].r = <<0>>

\* C11: flashTestboard issues UpgradeExec and returns true if and only if the version
\* was 0x0100, UpgradeStart(0x0100), every UpgradeData and UpgradeError returned 0
\* and the file was read to end-of-file without a read error; after the first
\* failure it returns false and issues no further UpgradeData and no UpgradeExec.
C11_FlashOnlyWhenEverythingSucceeded ==
    op = "flashTestboard" =>
        LET exec == Positions(calls, {"UpgradeExec"})
        IN  /\ ret \in BOOLEAN
            /\ ret = TRUE <=> UpgradeAllOk
            /\ exec # {} <=> ret = TRUE
            /\ Cardinality(exec) <= 1
            /\ \A i \in DOMAIN calls :
                 UpgradeFailed(calls, i) =>
                    /\ ret = FALSE
                    /\ \A j \in DOMAIN calls :
                         j > i => calls[j].f \notin {"UpgradeData", "UpgradeExec"}
            /\ args.stream = "bad" => ret = FALSE /\ exec = {}

\* reached: a flash written after two records, and a refusal of the second record
\* of a file that holds a third
C11_Witness ==
    /\ op = "flashTestboard"
    /\ \/ /\ ret = TRUE
          /\ Len(Only(calls, {"UpgradeData"})) = 2
          /\ Len(Only(calls, {"UpgradeExec"})) = 1
       \/ /\ ret = FALSE
          /\ Len(Only(calls, {"UpgradeData"})) = 2
          /\ UpgradeFailed(calls, 4)
          /\ Len(SelectSeq(args.flashFile.lines, LAMBDA l : l # "")) = 2
          /\ args.flashFile.tail # ""

\* the non-empty lines of a flash file, in file order, a last line without a
\* newline included
NonEmptyLines(file) == SelectSeq(file.lines \o <<file.tail>>, LAMBDA l : l # "")

\* C12: when no upgrade call fails and the file is read without error, every non-empty
\* line of the file, a last line without newline included, is sent by exactly one
\* UpgradeData call, in file order, and the record count passed to UpgradeExec is
\* the number of UpgradeData calls.
C12_WholeFileDownloaded ==
    (/\ op = "flashTestboard"
     /\ Only(calls, {"UpgradeStart"}) # <<>>
     /\ \A i \in DOMAIN calls : ~UpgradeFailed(calls, i)
     /\ args.stream # "bad") =>
        LET data == Only(calls, {"UpgradeData"})
            exec == Only(calls, {"UpgradeExec"})
        IN  /\ [i \in 1 .. Len(data) |-> data[i].a[1]] = NonEmptyLines(args.flashFile)
            /\ Len(exec) = 1
            /\ exec[1].a = <<Len(data)>>

-----------------------------------------------------------------------------
(* Claim C13: tbmSetReg and the two TBM cores (checked under SpecReg) *)

\* C13: tbmSetReg selects module address 31 and then writes regValue to register
\* 0xE0 | regId for core 1 and to register 0xF0 | regId for core 2, and returns true.
C13_BothCoresWritten ==
    op = "tbmSetReg" =>
        LET regId    == CHOOSE k \in DOMAIN args.pairs : TRUE
            regValue == args.pairs[regId]
            regCore1 == BitOr(224, regId) % Uint8Range
            regCore2 == BitOr(240, regId) % Uint8Range
        IN  /\ calls = <<VCall("mod_Addr", <<ModAddr>>),
                         VCall("tbm_Set", <<regCore1, regValue>>),
                         VCall("tbm_Set", <<regCore2, regValue>>)>>
            /\ ret = TRUE

=============================================================================
